---- MODULE Spec2Model ----
(***************************************************************************)
(* Model of ComposeExtension (src/unnamed/part_000): the compose lifecycle *)
(* coordinator.  Every async method is cut at its await points: one action *)
(* per continuation.  Several cycles may be suspended at the same time,    *)
(* all held in the bag `tasks`.                                            *)
(***************************************************************************)
EXTENDS Integers, Sequences, FiniteSets, Bags, TLC

\* ---------------------------------------------------------------- bounds
MaxDispatch == 2
MaxConns == 2
MaxReleases == 2

\* ------------------------------------------------------------- constants
COMPOSE_INSTALL_COMMAND == "compose.install"
COMPOSE_CHECKS_COMMAND == "compose.checks"
ICON_CHECK == "fa fa-check"
ICON_DOWNLOAD == "fa fa-download"
ICON_WARNING == "fa fa-exclamation-triangle"

OSFamilies == {"windows", "linux", "mac"}

StorageRoot == "storage"
BinFolder == "storage/bin"
Paths ==
  {StorageRoot, BinFolder, "storage/bin/docker-compose", "storage/bin/docker-compose.exe",
   "storage/bin/compose", "storage/bin/compose.bat"}

Absent == "absent"
Dir == "dir"
Truncated == "truncated"
ModeDefault == "default"
Mode0755 == "0755"

Endpoints == {"sock1", "sock2"}
ReleaseIds == {"v1", "v2"}

VARIABLES os, activatePc, statusBarItem, currentInformation, fs, modes, tasks, dispatched,
          last

vars == <<os, activatePc, statusBarItem, currentInformation, fs, modes, tasks, dispatched,
          last>>

\* ------------------------------------------------------------ OS probe
IsWindows(o) == o = "windows"
IsLinux(o) == o = "linux"
IsMac(o) == o = "mac"

\* path.resolve(storageBinFolder, `docker-compose${fileExtension}`)
BinaryPath(o) ==
  IF IsWindows(o) THEN "storage/bin/docker-compose.exe" ELSE "storage/bin/docker-compose"

\* path.resolve(storageBinFolder, `compose${fileExtension}`)
WrapperPath(o) ==
  IF IsWindows(o) THEN "storage/bin/compose.bat" ELSE "storage/bin/compose"

\* ------------------------------------------------------- collaborators
\* engine-connection source: lists of connections, each with an endpoint and a status
Connections == [endpoint : Endpoints, status : {"started", "stopped"}]

\* the lists provider.getContainerConnections() may return: connections of distinct
\* endpoints, in any order and of any status
ConnLists ==
  {cs \in UNION {[1..n -> Connections] : n \in 0..MaxConns} :
     \A i, j \in DOMAIN cs : i # j => cs[i].endpoint # cs[j].endpoint}

StartedConnectionsAny(conns) == conns

StartedConnections(conns) == SelectSeq(conns, LAMBDA c : c.status = "started")

\* release source: most-recent-first lists of release descriptors without repetition
ReleaseLabel(id) == IF id = "v1" THEN "1.0" ELSE "2.0"

Release(id) == [id |-> id, label |-> ReleaseLabel(id)]

ReleaseLists ==
  {rs \in UNION {[1..n -> {Release(i) : i \in ReleaseIds}] : n \in 1..MaxReleases} :
     \A i, j \in DOMAIN rs : i # j => rs[i] # rs[j]}

NoRelease == [id |-> "none", label |-> "none"]

\* content the wrapper generator writes for a connection
WrapperFor(conn) == conn.endpoint

GenerateKeepExisting(files, path, conn) ==
  IF files[path] = Absent THEN [files EXCEPT ![path] = WrapperFor(conn)] ELSE files

\* podmanComposeGenerator.generate(connection, path): (over)writes the script at `path`
Generate(files, path, conn) == [files EXCEPT ![path] = WrapperFor(conn)]

\* content left at the destination by a wrapper generation that failed
GenerateFailureContents(old) == {old, Truncated}

\* content the release source writes for a release asset
AssetFor(assetId) == assetId

\* getReleaseAssetId(selectedRelease.id, platform(), arch())
ReleaseAssetId(release) == release.id

DownloadFailureTruncates(old) == Truncated

\* File at the destination after a failed downloadReleaseAsset
DownloadFailureContent(old) == old

\* ----------------------------------------------------- status indicator
Undefined == <<>>

NoItem == [created |-> FALSE, text |-> "", iconClass |-> "", tooltip |-> "", command |-> ""]

\* window.createStatusBarItem + text/command assignments of activate
CreatedItem ==
  [created |-> TRUE, text |-> "Compose", iconClass |-> "undefined", tooltip |-> "undefined",
   command |-> COMPOSE_CHECKS_COMMAND]

TooltipSocket == "Compose is installed and DOCKER_HOST is reachable"
TooltipNoEngine == "No running container engine. Unable to write a compose wrapper script that will set DOCKER_HOST in that case. Please start a container engine first."
TooltipNeedWrapper == "socket is not enabled. Need to use wrapper script"
TooltipWrapper == "Compose is installed and usable with storage/bin/compose"
TooltipInstall == "Install Compose"

\* the advisory text of runChecks, as its pieces
AdvisoryText ==
  <<"Please add the compose wrapper bin folder to your PATH environment variable. Value is ",
    BinFolder, ". The script ", "storage/bin/compose",
    " will setup for you the DOCKER_HOST environment variable.">>

SuccessText(label) == <<"Docker Compose ", label, " installed">>

\* const statusBarChangesToApply = { iconClass: '', tooltip: '', command: CHECKS }
ResetChanges == [iconClass |-> "", tooltip |-> "", command |-> COMPOSE_CHECKS_COMMAND]

ChangesNotInstalled ==
  [iconClass |-> ICON_DOWNLOAD, tooltip |-> TooltipInstall, command |-> COMPOSE_INSTALL_COMMAND]

ChangesSocketEmpty == ResetChanges

ChangesSocket == [ResetChanges EXCEPT !.iconClass = ICON_CHECK, !.tooltip = TooltipSocket]

ChangesNoEngineCheckIcon ==
  [ResetChanges EXCEPT !.iconClass = ICON_CHECK, !.tooltip = TooltipNoEngine]

ChangesNoEngine == [ResetChanges EXCEPT !.iconClass = ICON_WARNING, !.tooltip = TooltipNoEngine]

ChangesNeedsPath ==
  [ResetChanges EXCEPT !.iconClass = ICON_WARNING, !.tooltip = TooltipNeedWrapper]

ChangesWrapper == [ResetChanges EXCEPT !.iconClass = ICON_CHECK, !.tooltip = TooltipWrapper]

ApplyChangesKeepCommand(item, changes) ==
  IF item.created
    THEN [item EXCEPT !.iconClass = changes.iconClass, !.tooltip = changes.tooltip]
    ELSE item

\* if (this.statusBarItem) { iconClass = ..; tooltip = ..; command = .. }
ApplyChanges(item, changes) ==
  IF item.created
    THEN [item EXCEPT !.iconClass = changes.iconClass, !.tooltip = changes.tooltip,
                      !.command = changes.command]
    ELSE item

NotifyOnChecksAlways(info, firstCheck) ==
  IF info # Undefined THEN <<info>> ELSE <<>>

\* notifyOnChecks + showCurrentInformation: the messages pushed to the user
NotifyOnChecks(info, firstCheck) ==
  IF info # Undefined /\ ~firstCheck THEN <<info>> ELSE <<>>

\* ---------------------------------------------------------------- tasks
\* a suspended call: its kind, the await it is suspended at, and its locals
Idle ==
  [kind |-> "idle", pc |-> "idle", firstCheck |-> FALSE, probed |-> {}, hasCompose |-> FALSE,
   socketAlive |-> FALSE, hasStarted |-> FALSE, inPath |-> FALSE, conn |-> "none",
   releases |-> <<>>, selected |-> NoRelease, assetId |-> "none", clobbered |-> FALSE,
   generated |-> 0]

\* what the latest step did, when it settled a call or touched the file system
NoLast ==
  [kind |-> "none", outcome |-> "none", at |-> "none", rec |-> Idle, changes |-> ResetChanges,
   pushed |-> FALSE, notified |-> <<>>, info |-> Undefined, spawned |-> FALSE,
   offered |-> <<>>, choice |-> 0, replaced |-> "none", error |-> "none", conns |-> <<>>]

\* the synchronous prefix of runChecks(firstCheck), up to its first await
NewCheck(firstCheck) == [Idle EXCEPT !.kind = "check", !.pc = "compose", !.firstCheck = firstCheck]

\* the synchronous prefix of installDockerCompose, up to its first await
NewInstall == [Idle EXCEPT !.kind = "install", !.pc = "releases"]

Started(rec) == tasks (+) SetToBag({rec})

Settled(rec) == tasks (-) SetToBag({rec})

Resumed(rec, new) == (tasks (-) SetToBag({rec})) (+) SetToBag({new})

InFlight == BagCardinality(tasks)

ChecksInFlight == {rec \in BagToSet(tasks) : rec.kind = "check"}

\* the path the operation awaited at `pc` creates or writes
Target(pc) ==
  CASE pc \in {"wrapMkdir", "instMkdir"} -> BinFolder
    [] pc \in {"wrapGenerate", "wrapChmod"} -> WrapperPath(os)
    [] pc \in {"download", "instChmod"} -> BinaryPath(os)

\* a step of the call `rec` that touched the file system and left the call suspended;
\* `replaced` is what was at the written path before
Touched(rec) == [NoLast EXCEPT !.kind = rec.kind, !.outcome = "suspended", !.at = rec.pc,
                               !.rec = rec, !.info = currentInformation,
                               !.replaced = fs[Target(rec.pc)]]

Init ==
  /\ os \in OSFamilies
  /\ activatePc = "init"
  /\ statusBarItem = NoItem
  /\ currentInformation = Undefined
  /\ fs = [p \in Paths |-> Absent]
  /\ modes = [p \in Paths |-> ModeDefault]
  /\ tasks = EmptyBag
  /\ dispatched = 0
  /\ last = NoLast

MkdirOptionsPlain == [recursive |-> FALSE]

\* { recursive: true }
MkdirOptions == [recursive |-> TRUE]

\* the error of fs.mkdir for the bin folder: without `recursive` it fails when the folder
\* exists (EEXIST) or its parent is missing (ENOENT)
MkdirError(files, options) ==
  IF options.recursive THEN "none"
  ELSE IF files[BinFolder] # Absent THEN "EEXIST"
  ELSE IF files[StorageRoot] = Absent THEN "ENOENT"
  ELSE "none"

\* promises.mkdir(storageBinFolder, { recursive: true })
Mkdir(files) ==
  IF MkdirError(files, MkdirOptions) = "none"
    THEN [files EXCEPT ![StorageRoot] = Dir, ![BinFolder] = Dir]
    ELSE files

\* ------------------------------------------------------------- activate
ActivateNoAwait ==
  /\ activatePc = "init"
  /\ statusBarItem' = (IF ~statusBarItem.created THEN CreatedItem ELSE statusBarItem)
  /\ currentInformation' = Undefined
  /\ tasks' = Started(NewCheck(TRUE))
  /\ activatePc' = "done"
  /\ last' = NoLast
  /\ UNCHANGED <<os, fs, modes, dispatched>>

\* activate(): create the status bar item, then runChecks(true) up to its first await
Activate ==
  /\ activatePc = "init"
  /\ statusBarItem' = (IF ~statusBarItem.created THEN CreatedItem ELSE statusBarItem)
  /\ currentInformation' = Undefined
  /\ tasks' = Started(NewCheck(TRUE))
  /\ activatePc' = "awaitChecks"
  /\ last' = NoLast
  /\ UNCHANGED <<os, fs, modes, dispatched>>

\* activate() resumed after `await this.runChecks(true)`: registers the two commands
ActivateRegister ==
  /\ activatePc = "checksResolved"
  /\ activatePc' = "done"
  /\ last' = NoLast
  /\ UNCHANGED <<os, statusBarItem, currentInformation, fs, modes, tasks, dispatched>>

\* activate() rejected by the rejection of runChecks(true)
ActivateReject ==
  /\ activatePc = "checksRejected"
  /\ activatePc' = "rejected"
  /\ last' = NoLast
  /\ UNCHANGED <<os, statusBarItem, currentInformation, fs, modes, tasks, dispatched>>

CommandsRegistered == activatePc = "done"

\* pc of activate once the cycle of record `rec` has settled with `outcome`
ActivateAfter(rec, outcome) ==
  IF activatePc = "awaitChecks" /\ rec.kind = "check" /\ rec.firstCheck
    THEN (IF outcome = "resolved" THEN "checksResolved" ELSE "checksRejected")
    ELSE activatePc

\* ------------------------------------------------------------- commands
\* the host dispatches 'compose.checks': () => this.runChecks(false)
DispatchChecks ==
  /\ CommandsRegistered
  /\ dispatched < MaxDispatch
  /\ tasks' = Started(NewCheck(FALSE))
  /\ currentInformation' = Undefined
  /\ dispatched' = dispatched + 1
  /\ last' = NoLast
  /\ UNCHANGED <<os, activatePc, statusBarItem, fs, modes>>

\* the host dispatches 'compose.install': () => this.installDockerCompose()
DispatchInstall ==
  /\ CommandsRegistered
  /\ dispatched < MaxDispatch
  /\ tasks' = Started(NewInstall)
  /\ dispatched' = dispatched + 1
  /\ last' = NoLast
  /\ UNCHANGED <<os, activatePc, statusBarItem, currentInformation, fs, modes>>

\* ------------------------------------------------------------ runChecks
\* the tail of runChecks: apply status bar changes, notifyOnChecks, resolve
FinishChecks(old, rec, changes, info) ==
  /\ statusBarItem' = ApplyChanges(statusBarItem, changes)
  /\ currentInformation' = info
  /\ tasks' = Settled(old)
  /\ activatePc' = ActivateAfter(rec, "resolved")
  /\ last' = [kind |-> "check", outcome |-> "resolved", at |-> rec.pc, rec |-> rec,
              changes |-> changes, pushed |-> statusBarItem.created,
              notified |-> NotifyOnChecks(info, rec.firstCheck), info |-> info,
              spawned |-> FALSE, offered |-> <<>>, choice |-> 0, replaced |-> "none",
              error |-> "none", conns |-> <<>>]
  /\ UNCHANGED <<os, fs, modes, dispatched>>

\* resumed after `await this.detect.checkForDockerCompose()`
CheckCompose(old) ==
  /\ old.kind = "check" /\ old.pc = "compose"
  /\ \E r \in BOOLEAN :
       LET rec == [old EXCEPT !.probed = @ \cup {"compose"}, !.hasCompose = r]
       IN IF r
            THEN /\ tasks' = Resumed(old, [rec EXCEPT !.pc = "socket"])
                 /\ last' = NoLast
                 /\ UNCHANGED <<os, activatePc, statusBarItem, currentInformation, fs, modes,
                                dispatched>>
            ELSE FinishChecks(old, rec, ChangesNotInstalled, currentInformation)

WrapperEntryIfMissing(files) ==
  IF files[WrapperPath(os)] # Absent THEN "path"
  ELSE IF files[BinFolder] = Absent THEN "wrapMkdir" ELSE "wrapGenerate"

\* addComposeWrapper up to its first suspension on I/O: mkdir when
\* existsSync(storageBinFolder) is false, generate otherwise.  (The await of the
\* storagePath string only yields to the microtask queue; the continuation before it
\* touches nothing but locals, so it commutes with every step of another cycle.)
WrapperEntry(files) == IF files[BinFolder] = Absent THEN "wrapMkdir" ELSE "wrapGenerate"

\* the call `rec` got `conns` from provider.getContainerConnections() and entered
\* addComposeWrapper with the connection of endpoint `conn`
Queried(rec, conn, conns) ==
  [NoLast EXCEPT !.kind = "check", !.outcome = "suspended", !.at = "socket",
                 !.rec = [rec EXCEPT !.conn = conn], !.info = currentInformation,
                 !.conns = conns]

\* resumed after `await this.detect.checkDefaultSocketIsAlive()`; on false, queries the
\* connections and enters addComposeWrapper(startedConnections[0])
CheckSocket(old) ==
  /\ old.kind = "check" /\ old.pc = "socket"
  /\ \E r \in BOOLEAN :
       LET rec == [old EXCEPT !.probed = @ \cup {"socket"}, !.socketAlive = r]
       IN IF r
            THEN FinishChecks(old, rec, ChangesSocket, currentInformation)
            ELSE \E conns \in ConnLists :
                   LET startedConnections == StartedConnections(conns)
                       rec2 == [rec EXCEPT !.probed = @ \cup {"connections"},
                                           !.hasStarted = \E i \in DOMAIN conns :
                                                            conns[i].status = "started"]
                   IN IF Len(startedConnections) = 0
                        THEN FinishChecks(old, rec2, ChangesNoEngine, currentInformation)
                        ELSE /\ tasks' = Resumed(old,
                                  [rec2 EXCEPT !.pc = WrapperEntry(fs),
                                               !.conn = startedConnections[1].endpoint])
                             /\ last' = Queried(rec2, startedConnections[1].endpoint, conns)
                             /\ UNCHANGED <<os, activatePc, statusBarItem, currentInformation,
                                            fs, modes, dispatched>>

\* the awaited operation of a check cycle rejects: runChecks has no try/catch
RejectChecks(old, files, error) ==
  /\ fs' = files
  /\ tasks' = Settled(old)
  /\ activatePc' = ActivateAfter(old, "rejected")
  /\ last' = [NoLast EXCEPT !.kind = "check", !.outcome = "rejected", !.at = old.pc,
                            !.rec = old, !.info = currentInformation, !.error = error]
  /\ UNCHANGED <<os, statusBarItem, currentInformation, modes, dispatched>>

\* addComposeWrapper resumed after `await promises.mkdir(...)`
WrapMkdir(old) ==
  /\ old.kind = "check" /\ old.pc = "wrapMkdir"
  /\ IF MkdirError(fs, MkdirOptions) = "none"
       THEN /\ fs' = Mkdir(fs)
            /\ tasks' = Resumed(old, [old EXCEPT !.pc = "wrapGenerate"])
            /\ last' = Touched(old)
            /\ UNCHANGED <<os, activatePc, statusBarItem, currentInformation, modes,
                           dispatched>>
       ELSE RejectChecks(old, fs, MkdirError(fs, MkdirOptions))

\* addComposeWrapper resumed after `await this.podmanComposeGenerator.generate(...)`;
\* makeExecutable awaits chmod on Linux and Mac only
WrapGenerate(old) ==
  /\ old.kind = "check" /\ old.pc = "wrapGenerate"
  /\ fs' = Generate(fs, WrapperPath(os), [endpoint |-> old.conn])
  /\ tasks' = Resumed(old, [old EXCEPT !.generated = @ + 1,
                                       !.pc = IF IsLinux(os) \/ IsMac(os)
                                               THEN "wrapChmod" ELSE "path"])
  /\ last' = Touched(old)
  /\ UNCHANGED <<os, activatePc, statusBarItem, currentInformation, modes, dispatched>>

\* makeExecutable resumed after `await promises.chmod(filePath, 0o755)`
WrapChmod(old) ==
  /\ old.kind = "check" /\ old.pc = "wrapChmod"
  /\ modes' = [modes EXCEPT ![WrapperPath(os)] = Mode0755]
  /\ tasks' = Resumed(old, [old EXCEPT !.pc = "path"])
  /\ last' = Touched(old)
  /\ UNCHANGED <<os, activatePc, statusBarItem, currentInformation, fs, dispatched>>

\* resumed after `await this.detect.checkStoragePath()`
CheckPath(old) ==
  /\ old.kind = "check" /\ old.pc = "path"
  /\ \E r \in BOOLEAN :
       LET rec == [old EXCEPT !.probed = @ \cup {"path"}, !.inPath = r]
       IN IF ~r
            THEN FinishChecks(old, rec, ChangesNeedsPath, AdvisoryText)
            ELSE FinishChecks(old, rec, ChangesWrapper, currentInformation)

CheckFault(old) ==
  /\ old.kind = "check"
  /\ old.pc \in {"compose", "socket", "wrapMkdir", "wrapChmod", "path"}
  /\ RejectChecks(old, fs, "fault")

GenerateFault(old) ==
  /\ old.kind = "check" /\ old.pc = "wrapGenerate"
  /\ \E c \in GenerateFailureContents(fs[WrapperPath(os)]) :
       RejectChecks(old, [fs EXCEPT ![WrapperPath(os)] = c], "fault")

\* ------------------------------------------------- installDockerCompose
InstallOrderFolderFirst ==
  <<"releases", "quickPick", "instMkdir", "assetId", "download", "instChmod", "end">>

\* the I/O awaits of installDockerCompose in program order; "end" is its synchronous
\* tail.  (The await of the storagePath string is not a step, as in WrapperEntry.)
InstallOrder ==
  <<"releases", "quickPick", "assetId", "instMkdir", "download", "instChmod", "end">>

InstallAfter(pc) == InstallOrder[(CHOOSE i \in DOMAIN InstallOrder : InstallOrder[i] = pc) + 1]

AdvanceLinuxOnly(o, files, pc) ==
  LET n == InstallAfter(pc)
  IN IF n = "instMkdir" /\ files[BinFolder] # Absent
       THEN InstallAfter("instMkdir")
       ELSE IF n = "instChmod" /\ ~IsLinux(o)
              THEN InstallAfter("instChmod")
              ELSE n

\* the await reached after the continuation of `pc`: mkdir is awaited only when
\* existsSync(storageBinFolder) is false, chmod only on Linux and Mac
Advance(o, files, pc) ==
  LET n == InstallAfter(pc)
  IN IF n = "instMkdir" /\ files[BinFolder] # Absent
       THEN InstallAfter("instMkdir")
       ELSE IF n = "instChmod" /\ ~(IsLinux(o) \/ IsMac(o))
              THEN InstallAfter("instChmod")
              ELSE n

InstallContinueAwaitsChecks(old, rec, n, event) ==
  IF n = "end"
    THEN /\ currentInformation' = Undefined
         /\ tasks' = Resumed(old, [rec EXCEPT !.pc = "awaitChecks"]) (+) SetToBag({NewCheck(FALSE)})
         /\ last' = [NoLast EXCEPT !.kind = "install", !.outcome = "suspended", !.at = old.pc,
                                   !.rec = rec, !.info = Undefined, !.spawned = TRUE]
    ELSE /\ tasks' = Resumed(old, [rec EXCEPT !.pc = n])
         /\ last' = event
         /\ UNCHANGED currentInformation

\* suspend at await `n`, or run the tail: showInformationMessage, then
\* this.runChecks(false) up to its first await (not awaited)
InstallContinue(old, rec, n, event) ==
  IF n = "end"
    THEN /\ currentInformation' = Undefined
         /\ tasks' = Resumed(old, NewCheck(FALSE))
         /\ last' = [NoLast EXCEPT !.kind = "install", !.outcome = "resolved", !.at = old.pc,
                                   !.rec = rec, !.info = Undefined,
                                   !.notified = <<SuccessText(rec.selected.label)>>,
                                   !.spawned = TRUE]
    ELSE /\ tasks' = Resumed(old, [rec EXCEPT !.pc = n])
         /\ last' = event
         /\ UNCHANGED currentInformation

\* resumed after `await this.composeGitHubReleases.grabLatestsReleasesMetadata()`
InstallReleases(old) ==
  /\ old.kind = "install" /\ old.pc = "releases"
  /\ \E rs \in ReleaseLists :
       InstallContinue(old, [old EXCEPT !.releases = rs], Advance(os, fs, "releases"), NoLast)
  /\ UNCHANGED <<os, activatePc, statusBarItem, fs, modes, dispatched>>

DefaultReleaseOldest(releases) == releases[Len(releases)]

\* if (!selectedRelease) { selectedRelease = lastReleasesMetadata[0]; }
DefaultRelease(releases) == releases[1]

\* the quick pick of the call `rec` returned `choice` among `offered`; 0 is no selection
Picked(rec, offered, choice) ==
  [NoLast EXCEPT !.kind = "install", !.outcome = "suspended", !.at = "quickPick", !.rec = rec,
                 !.info = currentInformation, !.offered = offered, !.choice = choice]

\* resumed after `await extensionApi.window.showQuickPick(...)`; 0 is "nothing selected"
InstallQuickPick(old) ==
  /\ old.kind = "install" /\ old.pc = "quickPick"
  /\ \E choice \in {0} \cup DOMAIN old.releases :
       LET selectedRelease ==
             IF choice = 0 THEN DefaultRelease(old.releases) ELSE old.releases[choice]
           rec == [old EXCEPT !.selected = selectedRelease, !.releases = <<>>]
       IN InstallContinue(old, rec, Advance(os, fs, "quickPick"),
                          Picked(rec, old.releases, choice))
  /\ UNCHANGED <<os, activatePc, statusBarItem, fs, modes, dispatched>>

\* resumed after `await this.composeGitHubReleases.getReleaseAssetId(...)`
InstallAssetId(old) ==
  /\ old.kind = "install" /\ old.pc = "assetId"
  /\ InstallContinue(old, [old EXCEPT !.assetId = ReleaseAssetId(old.selected)],
                     Advance(os, fs, "assetId"), NoLast)
  /\ UNCHANGED <<os, activatePc, statusBarItem, fs, modes, dispatched>>

\* the awaited operation of the install flow rejects: installDockerCompose has no
\* try/catch, so the rejection reaches the command dispatcher
RejectInstall(old, files, error) ==
  /\ fs' = files
  /\ tasks' = Settled(old)
  /\ last' = [NoLast EXCEPT !.kind = "install", !.outcome = "rejected", !.at = old.pc,
                            !.rec = old, !.info = currentInformation, !.error = error]
  /\ UNCHANGED <<os, activatePc, statusBarItem, currentInformation, modes, dispatched>>

\* resumed after `await promises.mkdir(storageBinFolder, { recursive: true })`
InstallMkdir(old) ==
  /\ old.kind = "install" /\ old.pc = "instMkdir"
  /\ IF MkdirError(fs, MkdirOptions) = "none"
       THEN /\ fs' = Mkdir(fs)
            /\ InstallContinue(old, old, Advance(os, fs', "instMkdir"), Touched(old))
            /\ UNCHANGED <<os, activatePc, statusBarItem, modes, dispatched>>
       ELSE RejectInstall(old, fs, MkdirError(fs, MkdirOptions))

\* resumed after `await this.composeGitHubReleases.downloadReleaseAsset(assetId, location)`
InstallDownload(old) ==
  /\ old.kind = "install" /\ old.pc = "download"
  /\ fs' = [fs EXCEPT ![BinaryPath(os)] = AssetFor(old.assetId)]
  /\ InstallContinue(old,
                     [old EXCEPT !.clobbered =
                                   fs[BinaryPath(os)] \notin {Absent, fs'[BinaryPath(os)]}],
                     Advance(os, fs', "download"), Touched(old))
  /\ UNCHANGED <<os, activatePc, statusBarItem, modes, dispatched>>

\* makeExecutable resumed after `await promises.chmod(filePath, 0o755)`
InstallChmod(old) ==
  /\ old.kind = "install" /\ old.pc = "instChmod"
  /\ modes' = [modes EXCEPT ![BinaryPath(os)] = Mode0755]
  /\ InstallContinue(old, old, Advance(os, fs, "instChmod"), Touched(old))
  /\ UNCHANGED <<os, activatePc, statusBarItem, fs, dispatched>>

\* an awaited operation of the install flow fails
InstallFault(old) ==
  /\ old.kind = "install"
  /\ old.pc \in {"releases", "assetId", "instMkdir", "download", "instChmod"}
  /\ RejectInstall(old,
                   IF old.pc = "download"
                     THEN [fs EXCEPT ![BinaryPath(os)] = DownloadFailureContent(@)]
                     ELSE fs,
                   "fault")

Next ==
  \/ Activate
  \/ ActivateRegister
  \/ ActivateReject
  \/ DispatchChecks
  \/ DispatchInstall
  \/ \E old \in BagToSet(tasks) : CheckCompose(old)
  \/ \E old \in BagToSet(tasks) : CheckSocket(old)
  \/ \E old \in BagToSet(tasks) : WrapMkdir(old)
  \/ \E old \in BagToSet(tasks) : WrapGenerate(old)
  \/ \E old \in BagToSet(tasks) : WrapChmod(old)
  \/ \E old \in BagToSet(tasks) : CheckPath(old)
  \/ \E old \in BagToSet(tasks) : CheckFault(old)
  \/ \E old \in BagToSet(tasks) : GenerateFault(old)
  \/ \E old \in BagToSet(tasks) : InstallReleases(old)
  \/ \E old \in BagToSet(tasks) : InstallQuickPick(old)
  \/ \E old \in BagToSet(tasks) : InstallAssetId(old)
  \/ \E old \in BagToSet(tasks) : InstallMkdir(old)
  \/ \E old \in BagToSet(tasks) : InstallDownload(old)
  \/ \E old \in BagToSet(tasks) : InstallChmod(old)
  \/ \E old \in BagToSet(tasks) : InstallFault(old)

\* a suspended call is resumed: its awaited operation has settled
TaskStep ==
  \E old \in BagToSet(tasks) :
    \/ CheckCompose(old) \/ CheckSocket(old) \/ WrapMkdir(old) \/ WrapGenerate(old)
    \/ WrapChmod(old) \/ CheckPath(old) \/ CheckFault(old) \/ GenerateFault(old)
    \/ InstallReleases(old) \/ InstallQuickPick(old) \/ InstallAssetId(old)
    \/ InstallMkdir(old) \/ InstallDownload(old) \/ InstallChmod(old) \/ InstallFault(old)

\* the event loop: every awaited operation settles and its continuation runs; the host
\* calls activate; nothing obliges the user to dispatch a command
Fairness ==
  /\ WF_vars(Activate)
  /\ WF_vars(ActivateRegister \/ ActivateReject)
  /\ WF_vars(TaskStep)

\* ================================================================ claims
\* the transition table of the specification (section 4.2), first match wins
Table(hasCompose, socketAlive, hasStarted, inPath) ==
  IF ~hasCompose THEN "NotInstalled"
  ELSE IF socketAlive THEN "InstalledAndReachable"
  ELSE IF ~hasStarted THEN "NoRunningEngine"
  ELSE IF inPath THEN "InstalledAndReachableWrapper"
  ELSE "InstalledNeedsPathSetup"

IconOf(status) ==
  CASE status = "NotInstalled" -> ICON_DOWNLOAD
    [] status = "InstalledAndReachable" -> ICON_CHECK
    [] status = "NoRunningEngine" -> ICON_WARNING
    [] status = "InstalledAndReachableWrapper" -> ICON_CHECK
    [] status = "InstalledNeedsPathSetup" -> ICON_WARNING

\* the status a presentation stands for, read off its tooltip
StatusOf(changes) ==
  CASE changes.tooltip = TooltipInstall -> "NotInstalled"
    [] changes.tooltip = TooltipSocket -> "InstalledAndReachable"
    [] changes.tooltip = TooltipNoEngine -> "NoRunningEngine"
    [] changes.tooltip = TooltipWrapper -> "InstalledAndReachableWrapper"
    [] changes.tooltip = TooltipNeedWrapper -> "InstalledNeedsPathSetup"
    [] OTHER -> "none"

\* the input combinations that agree with what the cycle of record `rec` was answered
Agrees(rec, hasCompose, socketAlive, hasStarted, inPath) ==
  /\ "compose" \in rec.probed => hasCompose = rec.hasCompose
  /\ "socket" \in rec.probed => socketAlive = rec.socketAlive
  /\ "connections" \in rec.probed => hasStarted = rec.hasStarted
  /\ "path" \in rec.probed => inPath = rec.inPath

CheckResolved == last.kind = "check" /\ last.outcome = "resolved"

CheckRejected == last.kind = "check" /\ last.outcome = "rejected"

InstallRejected == last.kind = "install" /\ last.outcome = "rejected"

Shown == [iconClass |-> statusBarItem.iconClass, tooltip |-> statusBarItem.tooltip,
          command |-> statusBarItem.command]

\* C1: a check cycle that has just resolved pushed, for every one of the 16 input
\* combinations that agrees with the answers it was given, the status of the
\* first-match-wins table and the icon of that status
C1_TransitionTable ==
  CheckResolved =>
    \A hc, sa, hs, ip \in BOOLEAN :
      Agrees(last.rec, hc, sa, hs, ip) =>
        /\ StatusOf(last.changes) = Table(hc, sa, hs, ip)
        /\ last.changes.iconClass = IconOf(Table(hc, sa, hs, ip))
        /\ Shown = last.changes

C1_Witness ==
  /\ CheckResolved
  /\ last.rec.probed = {"compose", "socket", "connections", "path"}
  /\ StatusOf(Shown) = "InstalledNeedsPathSetup"
  /\ Shown.iconClass = ICON_WARNING

\* C2 (as claimed): at most one check or install cycle is in flight at any time
C2_OneCycleInFlight == InFlight <= 1

\* C3: a resolved cycle with firstCheck=true pushed no message; a resolved cycle with
\* firstCheck=false that computed InstalledNeedsPathSetup pushed the advisory exactly once
C3_AdvisoryPush ==
  CheckResolved =>
    /\ last.rec.firstCheck => last.notified = <<>>
    /\ (~last.rec.firstCheck /\ StatusOf(last.changes) = "InstalledNeedsPathSetup")
         => last.notified = <<AdvisoryText>>

C3_Witness ==
  /\ CheckResolved
  /\ ~last.rec.firstCheck
  /\ StatusOf(last.changes) = "InstalledNeedsPathSetup"
  /\ last.notified = <<AdvisoryText>>

\* C4 (as claimed): whenever no check cycle is in flight after activation, the advisory
\* is defined exactly when the presentation shown is the InstalledNeedsPathSetup one
C4_AdvisoryIffNeedsPath ==
  (activatePc # "init" /\ ChecksInFlight = {}) =>
    (currentInformation # Undefined <=> StatusOf(Shown) = "InstalledNeedsPathSetup")

\* C5 (as claimed): a check cycle never rejects; a failure inside it ends in a
\* Warning presentation
C5_ChecksNeverReject == ~CheckRejected

C7_FailedInstallKeepsState ==
  InstallRejected => ~last.rec.clobbered /\ last.notified = <<>> /\ ~last.spawned

\* the probe answers that lead a check cycle to step 4 of the table
ReachedStep4(rec) ==
  /\ {"compose", "socket", "connections"} \subseteq rec.probed
  /\ rec.hasCompose /\ ~rec.socketAlive /\ rec.hasStarted

\* C8: every step that changes the wrapper file or its mode is a step of a check cycle
\* that was answered hasCompose=true, socket unreachable and has a started connection,
\* and so is every step of a check cycle that creates the bin folder; cycles that end
\* NotInstalled, InstalledAndReachable by the socket or NoRunningEngine change neither
C8_WrapperOnlyInStep4 ==
  [][/\ (fs'[WrapperPath(os)] # fs[WrapperPath(os)] \/ modes'[WrapperPath(os)] # modes[WrapperPath(os)])
          => (last'.kind = "check" /\ ReachedStep4(last'.rec))
     /\ (fs'[BinFolder] # fs[BinFolder] /\ last'.kind # "install")
          => (last'.kind = "check" /\ ReachedStep4(last'.rec))
     /\ (last'.kind = "check" /\ last'.outcome = "resolved" /\ ~ReachedStep4(last'.rec))
          => (fs' = fs /\ modes' = modes)]_vars

C8_Witness ==
  /\ last.kind = "check" /\ last.at = "wrapGenerate" /\ last.outcome = "suspended"
  /\ ReachedStep4(last.rec)
  /\ fs[WrapperPath(os)] = last.rec.conn

\* C9: once a presentation has been pushed, the indicator shows exactly one of the five
\* presentations, and its command is the install command iff it is the Download one
C9_OnePresentation ==
  (statusBarItem.created /\ statusBarItem.iconClass # "undefined") =>
    /\ Shown \in {ChangesNotInstalled, ChangesSocket, ChangesNoEngine, ChangesNeedsPath,
                  ChangesWrapper}
    /\ Shown.command = COMPOSE_INSTALL_COMMAND
         <=> (Shown.iconClass = ICON_DOWNLOAD /\ Shown.tooltip = TooltipInstall)
    /\ Shown.command \in {COMPOSE_INSTALL_COMMAND, COMPOSE_CHECKS_COMMAND}

C9_Witness ==
  /\ CheckResolved /\ ~last.rec.firstCheck
  /\ Shown = ChangesSocket
  /\ InFlight = 1

\* C10: every step of an install flow that creates the bin folder, writes the binary or
\* changes its mode runs with the asset id already resolved, and a flow whose asset-id
\* resolution failed has been abandoned with the file system as it was
C10_NoWriteOnUnsupportedPlatform ==
  [][/\ (last'.kind = "install" /\ last'.at \in {"instMkdir", "download", "instChmod"})
          => last'.rec.assetId # "none"
     /\ (last'.kind = "install" /\ last'.outcome = "rejected" /\ last'.at = "assetId")
          => (fs' = fs /\ modes' = modes /\ last'.rec.assetId = "none"
              /\ BagCardinality(tasks') = BagCardinality(tasks) - 1)]_vars

C10_Witness ==
  /\ InstallRejected /\ last.at = "assetId"
  /\ fs[BinFolder] = Absent /\ fs[BinaryPath(os)] = Absent

InstallResolved == last.kind = "install" /\ last.outcome = "resolved"

\* C11: when the quick pick returns nothing the release at index 0 of the offered list is
\* selected, otherwise the picked one; the asset downloaded to the binary path is the
\* selected release's, and the success notification carries the selected release's label
C11_SelectedRelease ==
  /\ (last.kind = "install" /\ last.at = "quickPick") =>
       /\ last.choice = 0 => last.rec.selected = last.offered[1]
       /\ last.choice # 0 => last.rec.selected = last.offered[last.choice]
  /\ (last.kind = "install" /\ last.at = "download" /\ last.outcome # "rejected") =>
       /\ last.rec.assetId = last.rec.selected.id
       /\ fs[BinaryPath(os)] = last.rec.selected.id
  /\ InstallResolved =>
       last.notified = <<SuccessText(ReleaseLabel(last.rec.selected.id))>>

C11_Witness ==
  /\ last.kind = "install" /\ last.at = "quickPick"
  /\ last.choice = 0 /\ Len(last.offered) = 2
  /\ last.rec.selected = [id |-> "v2", label |-> "2.0"]
  /\ last.offered[1].id = "v2"

\* C12: when an install flow has resolved, the binary is at bin/docker-compose.exe on
\* Windows and at bin/docker-compose on Linux and Mac, with mode 0755 set on Linux and
\* Mac; on Windows no mode is ever changed
C12_BinaryInstalled ==
  /\ InstallResolved =>
       /\ os = "windows" =>
            /\ fs["storage/bin/docker-compose.exe"] \in ReleaseIds
            /\ fs["storage/bin/docker-compose"] = Absent
            /\ last.at = "download"
       /\ os \in {"linux", "mac"} =>
            /\ fs["storage/bin/docker-compose"] \in ReleaseIds
            /\ fs["storage/bin/docker-compose.exe"] = Absent
            /\ modes["storage/bin/docker-compose"] = Mode0755
            /\ last.at = "instChmod"
  /\ os = "windows" => \A p \in Paths : modes[p] = ModeDefault

C12_Witness ==
  /\ InstallResolved
  /\ os = "mac"
  /\ fs["storage/bin/docker-compose"] = "v1"
  /\ modes["storage/bin/docker-compose"] = Mode0755

\* a check cycle has just had its wrapper generated
Regenerated == last.kind = "check" /\ last.at = "wrapGenerate" /\ last.outcome = "suspended"

\* C14: when a check cycle that reached step 4 has generated its wrapper, exactly one
\* wrapper file exists, at bin/compose.bat on Windows and bin/compose elsewhere, and its
\* content is that of the cycle's own first started connection, whatever wrapper an
\* earlier cycle left there for another connection
C14_WrapperOverwritten ==
  /\ Regenerated =>
       /\ os = "windows" => fs["storage/bin/compose.bat"] = WrapperFor([endpoint |-> last.rec.conn])
       /\ os # "windows" => fs["storage/bin/compose"] = WrapperFor([endpoint |-> last.rec.conn])
       /\ Cardinality({p \in {"storage/bin/compose", "storage/bin/compose.bat"} :
                         fs[p] # Absent}) = 1
  /\ os = "windows" => fs["storage/bin/compose"] = Absent
  /\ os # "windows" => fs["storage/bin/compose.bat"] = Absent

\* the second of two cycles replaced the wrapper of sock1 by that of sock2
C14_Witness ==
  /\ Regenerated
  /\ last.replaced = WrapperFor([endpoint |-> "sock1"])
  /\ last.rec.conn = "sock2"
  /\ fs[WrapperPath(os)] = WrapperFor([endpoint |-> "sock2"])
  /\ InFlight = 1

\* C15: whatever check and install cycles have run, nothing exists or has had its mode
\* changed outside the storage root, its bin folder, the binary docker-compose[.exe] and
\* the wrapper compose[.bat] of the running OS; and no call is ever rejected because
\* the bin folder (EEXIST) or the storage root (ENOENT) did or did not exist when the
\* bin folder was created
C15_OnlyBinArtifacts ==
  /\ os = "windows" =>
       \A p \in Paths \ {"storage", "storage/bin", "storage/bin/docker-compose.exe",
                         "storage/bin/compose.bat"} :
         fs[p] = Absent /\ modes[p] = ModeDefault
  /\ os # "windows" =>
       \A p \in Paths \ {"storage", "storage/bin", "storage/bin/docker-compose",
                         "storage/bin/compose"} :
         fs[p] = Absent /\ modes[p] = ModeDefault
  /\ fs["storage"] \in {Absent, Dir} /\ fs["storage/bin"] \in {Absent, Dir}
  /\ fs["storage/bin"] = Dir => fs["storage"] = Dir
  /\ last.error \notin {"EEXIST", "ENOENT"}
  /\ (last.at \in {"wrapMkdir", "instMkdir"} /\ last.outcome = "suspended") =>
       fs["storage/bin"] = Dir

\* a bin folder creation that found the folder already made by an overlapping cycle, and
\* succeeded
C15_Witness ==
  /\ last.at \in {"wrapMkdir", "instMkdir"} /\ last.outcome = "suspended"
  /\ last.replaced = Dir
  /\ fs["storage/bin"] = Dir
  /\ fs[BinaryPath(os)] # Absent /\ fs[WrapperPath(os)] # Absent

\* a check cycle has just received the connections and entered step 4
EnteredStep4 == last.kind = "check" /\ last.at = "socket" /\ last.outcome = "suspended"

\* C16: a check cycle that enters step 4 takes the first connection, in the order
\* returned, whose status is 'started'; it generates the wrapper for that connection,
\* once, whatever wrapper is already there; it probes hasWrapperOnPath only after that
\* generation, and a cycle that resolves before step 4 has generated nothing
C16_RegeneratesOnce ==
  /\ EnteredStep4 =>
       /\ \E i \in DOMAIN last.conns :
            /\ last.conns[i].status = "started"
            /\ last.conns[i].endpoint = last.rec.conn
            /\ \A j \in 1..(i - 1) : last.conns[j].status # "started"
       /\ \E t \in ChecksInFlight :
            t.pc \in {"wrapMkdir", "wrapGenerate"} /\ t.conn = last.rec.conn
  /\ Regenerated =>
       /\ last.rec.generated = 0
       /\ fs[WrapperPath(os)] = WrapperFor([endpoint |-> last.rec.conn])
  /\ \A t \in ChecksInFlight :
       /\ t.pc \in {"compose", "socket", "wrapMkdir", "wrapGenerate"} => t.generated = 0
       /\ t.pc \in {"wrapChmod", "path"} => t.generated = 1
       /\ "path" \notin t.probed
  /\ CheckResolved =>
       /\ "path" \in last.rec.probed <=> last.rec.generated = 1
       /\ "path" \notin last.rec.probed => last.rec.generated = 0
       /\ StatusOf(last.changes) \in {"InstalledAndReachableWrapper", "InstalledNeedsPathSetup"}
            <=> last.rec.generated = 1

\* a cycle enters step 4 with a stopped connection listed before the started one, while
\* the wrapper of that started connection is already in place, and goes on to generate
C16_Witness ==
  /\ EnteredStep4
  /\ last.conns = <<[endpoint |-> "sock1", status |-> "stopped"],
                    [endpoint |-> "sock2", status |-> "started"]>>
  /\ last.rec.conn = "sock2"
  /\ fs[WrapperPath(os)] = WrapperFor([endpoint |-> "sock2"])
  /\ \E t \in ChecksInFlight : t.pc = "wrapGenerate" /\ t.conn = "sock2"

\* C17 (as claimed): a check cycle that pushes the advisory to the user computed
\* InstalledNeedsPathSetup itself and pushed the Warning / run-checks presentation in the
\* same step; the advisory it shows is the one it set
C17_AdvisoryNeverStale ==
  (CheckResolved /\ last.notified # <<>>) =>
    /\ StatusOf(last.changes) = "InstalledNeedsPathSetup"
    /\ last.pushed
    /\ Shown = ChangesNeedsPath
    /\ last.notified = <<AdvisoryText>>

FirstCycleInFlight == \E t \in BagToSet(tasks) : t.kind = "check" /\ t.firstCheck

\* C18: the commands become registered only by activate resuming from a resolved first
\* cycle; while the first cycle (firstCheck=true) is in flight it is the only call in
\* flight and nothing has been dispatched; a dispatch needs registered commands and
\* starts an install or a check cycle with firstCheck=false; once the first cycle has
\* rejected the commands are never registered
C18_CommandsAfterFirstCycle ==
  [][ /\ (~CommandsRegistered /\ CommandsRegistered') =>
           (activatePc = "checksResolved" /\ ~FirstCycleInFlight /\ tasks = EmptyBag)
      /\ CommandsRegistered' => ~FirstCycleInFlight'
      /\ FirstCycleInFlight' =>
           (activatePc' = "awaitChecks" /\ BagCardinality(tasks') = 1 /\ dispatched' = 0)
      /\ dispatched' # dispatched =>
           /\ CommandsRegistered /\ ~FirstCycleInFlight
           /\ tasks' \in {Started(NewCheck(FALSE)), Started(NewInstall)}
      /\ (CheckResolved' /\ last'.rec.firstCheck) => (dispatched' = 0 /\ tasks' = EmptyBag)
      /\ activatePc \in {"checksRejected", "rejected"} =>
           (activatePc' \in {"checksRejected", "rejected"} /\ dispatched' = 0
            /\ tasks' = EmptyBag)
    ]_vars

\* a command-triggered check cycle in flight after the first cycle has completed
C18_Witness ==
  /\ CommandsRegistered
  /\ dispatched = 1
  /\ ~FirstCycleInFlight
  /\ \E t \in ChecksInFlight : ~t.firstCheck /\ t.pc = "socket"
  /\ statusBarItem.tooltip # "undefined"

\* continuations a check cycle suspended at `pc` still has to run before it settles
Remaining(pc) ==
  CASE pc = "compose" -> 6 [] pc = "socket" -> 5 [] pc = "wrapMkdir" -> 4
    [] pc = "wrapGenerate" -> 3 [] pc = "wrapChmod" -> 2 [] pc = "path" -> 1

RECURSIVE SumRemaining(_, _)
SumRemaining(b, ts) ==
  IF ts = {} THEN 0
  ELSE LET t == CHOOSE x \in ts : TRUE
       IN CopiesIn(t, b) * Remaining(t.pc) + SumRemaining(b, ts \ {t})

\* the continuations the check cycles in flight in bag `b` have left at most
Measure(b) == SumRemaining(b, {t \in BagToSet(b) : t.kind = "check"})

\* the number of check cycles in flight in bag `b`
ChecksIn(b) ==
  BagCardinality([t \in {x \in BagToSet(b) : x.kind = "check"} |-> CopiesIn(t, b)])

\* C19: a check cycle in flight can always be resumed, and each of its continuations
\* brings it strictly closer to settling, so it settles within six continuations; it
\* leaves only by resolving or by a fault of an awaited operation; when it resolves it
\* has pushed, in that same step, one of the five non-empty presentations to the
\* indicator, before the advisory if any; and the indicator changes at no other step
C19_CycleTerminatesWithOnePush ==
  [][ /\ \A t \in ChecksInFlight :
           ENABLED (CheckCompose(t) \/ CheckSocket(t) \/ WrapMkdir(t) \/ WrapGenerate(t)
                    \/ WrapChmod(t) \/ CheckPath(t))
      /\ \/ Measure(tasks') < Measure(tasks)
         \/ /\ Measure(tasks') = Measure(tasks) + Remaining("compose")
            /\ NewCheck(TRUE) \in BagToSet(tasks') \/ NewCheck(FALSE) \in BagToSet(tasks')
            /\ activatePc = "init" \/ dispatched' = dispatched + 1 \/ last'.spawned
         \/ tasks' = tasks
         \/ /\ Measure(tasks') = Measure(tasks)
            /\ last'.kind \in {"none", "install"}
      /\ ChecksIn(tasks') < ChecksIn(tasks) =>
           \/ CheckResolved'
           \/ CheckRejected' /\ last'.error = "fault"
      /\ CheckResolved' =>
           /\ last'.pushed
           /\ statusBarItem'.created
           /\ last'.changes \in {ChangesNotInstalled, ChangesSocket, ChangesNoEngine,
                                 ChangesNeedsPath, ChangesWrapper}
           /\ last'.changes.iconClass # "" /\ last'.changes.tooltip # ""
           /\ [iconClass |-> statusBarItem'.iconClass, tooltip |-> statusBarItem'.tooltip,
               command |-> statusBarItem'.command] = last'.changes
           /\ Len(last'.notified) <= 1
      /\ statusBarItem' # statusBarItem => (CheckResolved' \/ activatePc = "init")
      /\ statusBarItem'.created => (statusBarItem'.iconClass # "" /\ statusBarItem'.tooltip # "")
    ]_vars

\* a cycle that went through every continuation of step 4 has resolved, pushing the
\* wrapper presentation over another one
C19_Witness ==
  /\ CheckResolved
  /\ last.at = "path"
  /\ last.rec.probed = {"compose", "socket", "connections", "path"}
  /\ last.pushed
  /\ Shown = ChangesWrapper
  /\ ChecksInFlight = {}

\* the number of install flows in flight in bag `b`
InstallsIn(b) ==
  BagCardinality([t \in {x \in BagToSet(b) : x.kind = "install"} |-> CopiesIn(t, b)])

\* C20: the step in which the last file operation of an install succeeds (the download
\* on Windows, the permission change elsewhere) emits the success notification, starts
\* a check cycle that is left suspended at its first probe, and resolves the install in
\* that same step; no later step of a check cycle, failing or not, settles or changes an
\* install
C20_InstallIndependentOfRefresh ==
  [][ /\ ( /\ last'.kind = "install" /\ last'.outcome # "rejected"
           /\ \/ last'.at = "download" /\ os = "windows"
              \/ last'.at = "instChmod" ) =>
           /\ InstallResolved'
           /\ last'.notified = <<SuccessText(last'.rec.selected.label)>>
           /\ last'.spawned
           /\ InstallsIn(tasks') = InstallsIn(tasks) - 1
           /\ ChecksIn(tasks') = ChecksIn(tasks) + 1
           /\ NewCheck(FALSE) \in BagToSet(tasks')
      /\ last'.kind = "check" => InstallsIn(tasks') = InstallsIn(tasks)
      /\ InstallsIn(tasks') < InstallsIn(tasks) =>
           (last'.kind = "install" /\ last'.outcome \in {"resolved", "rejected"})
    ]_vars

\* the check cycle started by a successful install has rejected at its first probe; the
\* install had resolved and its binary is in place
C20_Witness ==
  /\ CheckRejected
  /\ ~last.rec.firstCheck /\ last.at = "compose"
  /\ dispatched = 1
  /\ tasks = EmptyBag
  /\ fs[BinaryPath(os)] \in ReleaseIds
  /\ os # "windows" => modes[BinaryPath(os)] = Mode0755

\* C13 (as claimed): a resolved install has emitted the success notification and started
\* a check cycle with firstCheck=false, and a check cycle with firstCheck=false then
\* eventually pushes a presentation
C13_PostInstallRefresh ==
  /\ [](InstallResolved =>
          (last.notified = <<SuccessText(last.rec.selected.label)>> /\ last.spawned
           /\ NewCheck(FALSE) \in BagToSet(tasks)))
  /\ (InstallResolved ~> (CheckResolved /\ ~last.rec.firstCheck /\ last.pushed))

Spec == Init /\ [][Next]_vars

FairSpec == Spec /\ Fairness
====
